---------------------------- MODULE Spec2Model ----------------------------
(***************************************************************************)
(* TimeShiftAI: the Streamlit page app/app.py (currency lookup, the        *)
(* multi-scenario wealth projection, the best / worst snapshot, the        *)
(* session chat memory and the rule-based advisor) and the income path     *)
(* utils/simulation_core.py:simulate_path.                                 *)
(*                                                                         *)
(* Numbers.  Money is counted in thousands of currency units (salary 15    *)
(* is the widget default 15000).  Growth rates and volatilities are in     *)
(* percent.  A trajectory value is stored multiplied by Unit = 100^MaxYears*)
(* (PathUnit for simulate_path), so that every multiplication by           *)
(* (1 + g/100) is exact: the stored integers are the rationals the code    *)
(* computes, without rounding.  conversion_rate is in hundredths.          *)
(*                                                                         *)
(* Randomness.  numpy's generators are deterministic state machines: a     *)
(* draw is a function of the generator state and advances it.  The global  *)
(* generator np.random is never seeded by app.py, so its state at process  *)
(* start is arbitrary; default_rng(seed) starts from a state fixed by the  *)
(* seed.  A standard normal sample is one of -1, 0, 1.                     *)
(***************************************************************************)
EXTENDS Integers, Sequences, FiniteSets, TLC

VARIABLES
  pc,               \* position of the script run of app.py
  inp,              \* the widget values of the run (app.py 63-82)
  gen,              \* state of the global generator np.random
  response,         \* what requests.get did in this run (app.py 91)
  conversion_rate,  \* app.py 88-100, in hundredths
  warned,           \* whether st.warning was shown by the currency block
  incomes, wealth,  \* per scenario: the lists of app.py 112-113
  data,             \* app.py 110: the per-scenario frames, in loop order
  df_all,           \* app.py 125
  df_display,       \* app.py 126-127
  snap,             \* app.py 141-149: best_row, worst_row and the metrics
  draws,            \* per scenario: the values np.random.normal returned, in order
  prev,             \* the wealth lists of the previous run, when it had the same inputs
  chatPc,           \* position of the chat section of app.py
  prompt,           \* app.py 182: the text box
  chat_memory,      \* app.py 177: st.session_state.chat_memory
  resp_text,        \* app.py 254: the reply, <<>> when none is shown
  shown,            \* app.py 269-272: the recent prompts as listed
  asked,            \* every non-empty prompt submitted in the session, in order
  pathPc,           \* position of a call of simulate_path
  args,             \* its arguments
  rng,              \* state of its generator default_rng(seed)
  salaryList,       \* its list salary
  noises,           \* the values rng.normal returned, in order
  rngCalls,         \* the number of calls of rng.normal
  error             \* the exception that ended the call, "none" without one

pageVars == <<pc, inp, gen, response, conversion_rate, warned, incomes, wealth, draws,
              data, df_all, df_display, snap, prev>>
chatVars == <<chatPc, prompt, chat_memory, resp_text, shown, asked>>
pathVars == <<pathPc, args, rng, salaryList, noises, rngCalls, error>>
vars == <<pageVars, chatVars, pathVars>>

----------------------------------------------------------------------------
(* Bounds *)

MaxYears == 2
GenModulus == 16
MaxAsked == 6
MaxWords == 3
MaxPathYears == 3

Unit == 100 ^ MaxYears

----------------------------------------------------------------------------
(* Helpers *)

Last(s) == s[Len(s)]

\* floor(a * n / d) for n >= 0, d > 0, without forming a * n
MulDiv(a, n, d) == (a \div d) * n + ((a % d) * n) \div d

RECURSIVE Concat(_)
Concat(ss) == IF ss = <<>> THEN <<>> ELSE Head(ss) \o Concat(Tail(ss))

----------------------------------------------------------------------------
(* The random source *)

GenStates == 0 .. (GenModulus - 1)

NextGen(s) == (5 * s + 3) % GenModulus

StdNormal(s) == ((s \div 4) % 3) - 1

\* np.random.normal(loc, scale), scale >= 0
Normal(loc, scale, s) == loc + scale * StdNormal(s)

\* np.random.uniform(lo, hi), in halves
Uniform(lo, hi, s) == 2 * lo + (hi - lo) * (s % 2)

----------------------------------------------------------------------------
(* app.py: widgets *)

Currencies == {"AED", "USD"}
base_currency == "AED"

Inputs ==
  [currency : Currencies, salary : {0, 15}, family_expense : {5}, emi : {2},
   savings : {10}, risk_tolerance : {5}, years : 1 .. MaxYears,
   growth_bias : {0, 5}]

----------------------------------------------------------------------------
(* app.py: currency conversion *)

RateOne == 100

NoBody == [kind |-> "none"]
Bodies ==
  { [kind |-> "invalid"],                                   \* resp.json() raises
    [kind |-> "object", hasRates |-> FALSE, rates |-> <<>>], \* no "rates" key
    [kind |-> "object", hasRates |-> TRUE, rates |-> <<>>],
    [kind |-> "object", hasRates |-> TRUE,
     rates |-> <<[symbol |-> "EUR", numeric |-> TRUE, value |-> 25]>>],
    [kind |-> "object", hasRates |-> TRUE,
     rates |-> <<[symbol |-> "USD", numeric |-> TRUE, value |-> 27]>>],
    [kind |-> "object", hasRates |-> TRUE,
     rates |-> <<[symbol |-> "USD", numeric |-> FALSE, value |-> 0]>>] }

NoResponse == [raised |-> FALSE, status_code |-> 0, body |-> NoBody]
Responses ==
  { [raised |-> TRUE, status_code |-> 0, body |-> NoBody] }
  \cup { [raised |-> FALSE, status_code |-> 500, body |-> NoBody] }
  \cup [raised : {FALSE}, status_code : {200}, body : Bodies]

HasRate(rates, cur) == \E i \in 1 .. Len(rates) : rates[i].symbol = cur
RateEntry(rates, cur) ==
  rates[CHOOSE i \in 1 .. Len(rates) : rates[i].symbol = cur]

\* rates.get(currency, 1.0)
RatesGetDefaultZero(rates, cur) ==
  IF HasRate(rates, cur) THEN RateEntry(rates, cur)
  ELSE [symbol |-> cur, numeric |-> TRUE, value |-> 0]
RatesGet(rates, cur) ==
  IF HasRate(rates, cur) THEN RateEntry(rates, cur)
  ELSE [symbol |-> cur, numeric |-> TRUE, value |-> RateOne]

\* the try block of app.py 90-100: the rate and whether a warning is shown
RateOf(resp, cur) ==
  IF resp.raised THEN [rate |-> RateOne, warned |-> TRUE]
  ELSE IF resp.status_code # 200 THEN [rate |-> RateOne, warned |-> TRUE]
  ELSE IF resp.body.kind = "invalid" THEN [rate |-> RateOne, warned |-> TRUE]
  ELSE LET rates == IF resp.body.hasRates THEN resp.body.rates ELSE <<>>
           r == RatesGet(rates, cur)
       IN IF r.numeric THEN [rate |-> r.value, warned |-> FALSE]
          ELSE [rate |-> RateOne, warned |-> TRUE]    \* float() raises

----------------------------------------------------------------------------
(* app.py: scenarios and the simulation loop *)

ScenarioNames == <<"Stay in Job", "Join Startup", "Go Freelance">>
ScenarioSet == {ScenarioNames[i] : i \in 1 .. Len(ScenarioNames)}

scenarios(growth_bias) ==
  [n \in ScenarioSet |->
     CASE n = "Stay in Job" -> [growth |-> 5 + growth_bias, volatility |-> 2]
       [] n = "Join Startup" -> [growth |-> 12 + growth_bias, volatility |-> 8]
       [] n = "Go Freelance" -> [growth |-> 8 + growth_bias, volatility |-> 5]]

\* range(1, years + 1)
YearRangeShort(years) == 1 .. (years - 1)
YearRange(years) == 1 .. years

\* incomes[-1] * (1 + g)
Grow(income, g) == MulDiv(income, 100 + g, 100)

\* wealth[-1] + inc - yearly_expense
NetWithoutOutflow(w, inc, yearly_expense) == w + inc
Net(w, inc, yearly_expense) == w + inc - yearly_expense

\* the body of the scenario loop, app.py 112-120
Project(params, in, g0) ==
  LET yearly_expense == (in.family_expense + in.emi) * 12 * Unit
      n == Cardinality(YearRange(in.years))
      F[y \in 0 .. n] ==
        IF y = 0
          THEN [incomes |-> <<in.salary * 12 * Unit>>,
                wealth |-> <<in.savings * Unit>>,
                draws |-> <<>>,
                gen |-> g0]
          ELSE LET p == F[y - 1]
                   g == Normal(params.growth, params.volatility, p.gen)
                   inc == Grow(Last(p.incomes), g)
                   net == Net(Last(p.wealth), inc, yearly_expense)
               IN [incomes |-> Append(p.incomes, inc),
                   wealth |-> Append(p.wealth, net),
                   draws |-> Append(p.draws, g),
                   gen |-> NextGen(p.gen)]
  IN F[n]

\* pd.DataFrame({"Year": range(0, years + 1), "Wealth": wealth}) with the Scenario
\* column; pandas raises ValueError when the two columns differ in length
FrameFits(years, w) == Len(w) = years + 1
Frame(name, years, w) ==
  [i \in 1 .. (years + 1) |-> [Year |-> i - 1, Wealth |-> w[i], Scenario |-> name]]

\* value * conversion_rate
MulRate(value, rate) == MulDiv(value, rate, RateOne)

\* df_display = df_all.copy(); df_display["Wealth"] = df_display["Wealth"] * conversion_rate
ConvertForDisplay(all, rate) ==
  [all |-> all,
   display |-> [i \in 1 .. Len(all) |->
                  [all[i] EXCEPT !.Wealth = MulRate(all[i].Wealth, rate)]]]

\* df_all[df_all["Year"] == years][["Scenario", "Wealth"]].reset_index(drop=True)
LastValues(all, years) ==
  LET AtYear(r) == r.Year = years
      rows == SelectSeq(all, AtYear)
  IN [i \in 1 .. Len(rows) |-> [Scenario |-> rows[i].Scenario, Wealth |-> rows[i].Wealth]]

\* Series.idxmax / Series.idxmin: the first position of the extreme value
IdxMaxLast(rows) ==
  CHOOSE i \in 1 .. Len(rows) :
    /\ \A j \in 1 .. Len(rows) : rows[j].Wealth <= rows[i].Wealth
    /\ \A j \in (i + 1) .. Len(rows) : rows[j].Wealth < rows[i].Wealth
IdxMax(rows) ==
  CHOOSE i \in 1 .. Len(rows) :
    /\ \A j \in 1 .. Len(rows) : rows[j].Wealth <= rows[i].Wealth
    /\ \A j \in 1 .. (i - 1) : rows[j].Wealth < rows[i].Wealth
IdxMin(rows) ==
  CHOOSE i \in 1 .. Len(rows) :
    /\ \A j \in 1 .. Len(rows) : rows[j].Wealth >= rows[i].Wealth
    /\ \A j \in 1 .. (i - 1) : rows[j].Wealth > rows[i].Wealth

----------------------------------------------------------------------------
(* app.py: one script run, section by section.  Streamlit runs the script  *)
(* top to bottom on every interaction; the widget values are fixed for the *)
(* run, np.random and st.session_state live across runs.                   *)

NoLists == [n \in ScenarioSet |-> <<>>]
NoSnap == [shown |-> FALSE, best |-> "", worst |-> "", best_wealth |-> 0,
           worst_wealth |-> 0, happiness |-> <<>>]
NoRun == [valid |-> FALSE, wealth |-> NoLists]

StartRun(in, g, p) ==
  /\ pc' = "currency"
  /\ inp' = in
  /\ gen' = g
  /\ response' = NoResponse
  /\ conversion_rate' = RateOne
  /\ warned' = FALSE
  /\ incomes' = NoLists
  /\ wealth' = NoLists
  /\ draws' = NoLists
  /\ data' = <<>>
  /\ df_all' = <<>>
  /\ df_display' = <<>>
  /\ snap' = NoSnap
  /\ prev' = p

PageInit ==
  /\ pc = "currency"
  /\ inp \in Inputs
  /\ gen \in GenStates
  /\ response = NoResponse
  /\ conversion_rate = RateOne
  /\ warned = FALSE
  /\ incomes = NoLists
  /\ wealth = NoLists
  /\ draws = NoLists
  /\ data = <<>>
  /\ df_all = <<>>
  /\ df_display = <<>>
  /\ snap = NoSnap
  /\ prev = NoRun

\* app.py 87-89 with currency == base_currency: no request
KeepBaseCurrency ==
  /\ pc = "currency"
  /\ inp.currency = base_currency
  /\ pc' = "simulate"
  /\ UNCHANGED <<inp, gen, response, conversion_rate, warned, incomes, wealth, draws,
                 data, df_all, df_display, snap, prev>>
  /\ UNCHANGED <<chatVars, pathVars>>

\* app.py 89-100: the request and what the code makes of its outcome
FetchRate ==
  /\ pc = "currency"
  /\ inp.currency # base_currency
  /\ \E resp \in Responses :
       LET r == RateOf(resp, inp.currency)
       IN /\ response' = resp
          /\ conversion_rate' = r.rate
          /\ warned' = r.warned
  /\ pc' = "simulate"
  /\ UNCHANGED <<inp, gen, incomes, wealth, draws, data, df_all, df_display, snap, prev>>
  /\ UNCHANGED <<chatVars, pathVars>>

\* app.py 111-123: one iteration of the loop over scenarios.items()
SimulateScenario ==
  /\ pc = "simulate"
  /\ Len(data) < Len(ScenarioNames)
  /\ LET name == ScenarioNames[Len(data) + 1]
         r == Project(scenarios(inp.growth_bias)[name], inp, gen)
     IN /\ incomes' = [incomes EXCEPT ![name] = r.incomes]
        /\ wealth' = [wealth EXCEPT ![name] = r.wealth]
        /\ draws' = [draws EXCEPT ![name] = r.draws]
        /\ gen' = r.gen
        /\ IF FrameFits(inp.years, r.wealth)
             THEN /\ data' = Append(data, Frame(name, inp.years, r.wealth))
                  /\ pc' = IF Len(data) + 1 = Len(ScenarioNames) THEN "frames" ELSE "simulate"
             ELSE /\ data' = data
                  /\ pc' = "crashed"
  /\ UNCHANGED <<inp, response, conversion_rate, warned, df_all, df_display, snap, prev>>
  /\ UNCHANGED <<chatVars, pathVars>>

\* app.py 125-127
BuildFrames ==
  /\ pc = "frames"
  /\ LET f == ConvertForDisplay(Concat(data), conversion_rate)
     IN /\ df_all' = f.all
        /\ df_display' = f.display
  /\ pc' = "snapshot"
  /\ UNCHANGED <<inp, gen, response, conversion_rate, warned, incomes, wealth, draws,
                 data, snap, prev>>
  /\ UNCHANGED <<chatVars, pathVars>>

\* app.py 139-160: best / worst path and the three happiness draws
Snapshot ==
  /\ pc = "snapshot"
  /\ LET last_values == LastValues(df_all, inp.years)
         g1 == NextGen(gen)
         g2 == NextGen(g1)
         happiness == <<Uniform(6, 8, gen), Uniform(7, 9, g1), Uniform(4, 7, g2)>>
     IN /\ snap' =
             IF last_values # <<>>
               THEN LET best_row == last_values[IdxMax(last_values)]
                        worst_row == last_values[IdxMin(last_values)]
                    IN [shown |-> TRUE,
                        best |-> best_row.Scenario,
                        worst |-> worst_row.Scenario,
                        best_wealth |-> MulRate(best_row.Wealth, conversion_rate),
                        worst_wealth |-> MulRate(worst_row.Wealth, conversion_rate),
                        happiness |-> happiness]
               ELSE [NoSnap EXCEPT !.happiness = happiness]
        /\ gen' = NextGen(g2)
  /\ pc' = "done"
  /\ UNCHANGED <<inp, response, conversion_rate, warned, incomes, wealth, draws, data,
                 df_all, df_display, prev>>
  /\ UNCHANGED <<chatVars, pathVars>>

\* the user changes a widget: the script runs again with the new values
Interact ==
  /\ pc \in {"done", "crashed"}
  /\ \E in \in Inputs : in # inp /\ StartRun(in, gen, NoRun)
  /\ UNCHANGED <<chatVars, pathVars>>

\* the script runs again with the widgets untouched
Rerun ==
  /\ pc = "done"
  /\ StartRun(inp, gen, [valid |-> TRUE, wealth |-> wealth])
  /\ UNCHANGED <<chatVars, pathVars>>

PageNext ==
  \/ KeepBaseCurrency
  \/ FetchRate
  \/ SimulateScenario
  \/ BuildFrames
  \/ Snapshot
  \/ Interact
  \/ Rerun

----------------------------------------------------------------------------
(* app.py: the advisor.  A text is a sequence of characters, so that        *)
(* str.lower and the substring test "kw in q" are the operations of the     *)
(* code.  A reply is the sequence of its segments: a template with the      *)
(* numbers substituted into it, and the context summary.                    *)

UpperCase == <<"A", "B", "C", "D", "E", "F", "G", "H", "I", "J", "K", "L", "M", "N", "O", "P", "Q", "R", "S", "T", "U", "V", "W", "X", "Y", "Z">>
LowerCase == <<"a", "b", "c", "d", "e", "f", "g", "h", "i", "j", "k", "l", "m", "n", "o", "p", "q", "r", "s", "t", "u", "v", "w", "x", "y", "z">>

\* str.lower, one character
LowerChar(c) ==
  IF \E i \in 1 .. Len(UpperCase) : UpperCase[i] = c
    THEN LowerCase[CHOOSE i \in 1 .. Len(UpperCase) : UpperCase[i] = c]
    ELSE c

\* str.lower
Lower(t) == [i \in 1 .. Len(t) |-> LowerChar(t[i])]

\* kw in q
In(kw, q) ==
  \E i \in 1 .. (Len(q) - Len(kw) + 1) : SubSeq(q, i, i + Len(kw) - 1) = kw

\* sep.join(parts)
RECURSIVE Join(_, _)
Join(sep, parts) ==
  IF parts = <<>> THEN <<>>
  ELSE IF Len(parts) = 1 THEN parts[1]
  ELSE parts[1] \o sep \o Join(sep, Tail(parts))

kw_startup == <<"s", "t", "a", "r", "t", "u", "p">>
kw_freelance == <<"f", "r", "e", "e", "l", "a", "n", "c", "e">>
kw_freelancing == <<"f", "r", "e", "e", "l", "a", "n", "c", "i", "n", "g">>
kw_save == <<"s", "a", "v", "e">>
kw_savings == <<"s", "a", "v", "i", "n", "g", "s">>
kw_save_more == <<"s", "a", "v", "e", " ", "m", "o", "r", "e">>
kw_compare == <<"c", "o", "m", "p", "a", "r", "e">>
kw_job == <<"j", "o", "b">>

NoRecentQuestions == <<"n", "o", " ", "r", "e", "c", "e", "n", "t", " ", "q", "u", "e", "s", "t", "i", "o", "n", "s">>
MemSeparator == <<" ", ";", " ">>

\* the nearest integer to num / den (den > 0, num >= 0)
Round(num, den) == (2 * num + den) \div (2 * den)

Segment(tag, nums, text) == [tag |-> tag, nums |-> nums, text |-> text]
Blank == Segment("\n\n", <<>>, <<>>)

\* app.py 184-191
compose_context(memory_deque, salary, savings, emi, family_expense, risk_tol, years) ==
  LET mem_summary == IF memory_deque # <<>> THEN Join(MemSeparator, memory_deque)
                     ELSE NoRecentQuestions
  IN Segment("Context", <<salary, savings, emi, family_expense, risk_tol, years>>,
             mem_summary)

\* the keyword tests of app.py 199, 214, 225 and 233, in the order of the code:
\* the branch taken for the lower-cased prompt q
BranchFreelanceFirst(q) ==
  IF In(kw_freelance, q) \/ In(kw_freelancing, q) THEN "freelance"
  ELSE IF In(kw_startup, q) THEN "startup"
  ELSE IF In(kw_save, q) \/ In(kw_savings, q) \/ In(kw_save_more, q) THEN "save"
  ELSE IF In(kw_compare, q) /\ In(kw_job, q) /\ In(kw_startup, q) THEN "compare"
  ELSE "fallback"
BranchCompareFirst(q) ==
  IF In(kw_compare, q) /\ In(kw_job, q) /\ In(kw_startup, q) THEN "compare"
  ELSE IF In(kw_startup, q) THEN "startup"
  ELSE IF In(kw_freelance, q) \/ In(kw_freelancing, q) THEN "freelance"
  ELSE IF In(kw_save, q) \/ In(kw_savings, q) \/ In(kw_save_more, q) THEN "save"
  ELSE "fallback"
Branch(q) ==
  IF In(kw_startup, q) THEN "startup"
  ELSE IF In(kw_freelance, q) \/ In(kw_freelancing, q) THEN "freelance"
  ELSE IF In(kw_save, q) \/ In(kw_savings, q) \/ In(kw_save_more, q) THEN "save"
  ELSE IF In(kw_compare, q) /\ In(kw_job, q) /\ In(kw_startup, q) THEN "compare"
  ELSE "fallback"

\* app.py 193-247.  Money is in thousands, est_runway in tenths of a month.
analytical_response(user_q, memory_deque, salary, savings, emi, family_expense, risk_tol, years, growth_bias) ==
  LET ctx == compose_context(memory_deque, salary, savings, emi, family_expense,
                             risk_tol, years)
      q == Lower(user_q)
      b == Branch(q)
      outflow == family_expense + emi
  IN CASE b = "startup" ->
            LET est_runway == IF outflow > 0 THEN Round(savings * 10, outflow)
                              ELSE savings * 1000 * 10
                tail == IF risk_tol <= 3 THEN "avoid full-time startup exposure"
                        ELSE IF risk_tol <= 7 THEN "part-time pilot"
                        ELSE "supports higher risk"
            IN <<Segment("startup", <<savings, outflow, est_runway>>, <<>>),
                 Segment(tail, <<>>, <<>>), Blank, ctx>>
       [] b = "freelance" ->
            LET tail == IF risk_tol <= 3 THEN "secondary income initially"
                        ELSE "3-6 month trial period"
            IN <<Segment("freelance", <<outflow>>, <<>>),
                 Segment(tail, <<>>, <<>>), Blank, ctx>>
       [] b = "save" ->
            LET recommended_pct == IF risk_tol >= 4 THEN 25 ELSE 20
            IN <<Segment("save", <<recommended_pct>>, <<>>), Blank, ctx>>
       [] b = "compare" ->
            LET job_growth == scenarios(growth_bias)["Stay in Job"].growth
                startup_growth == scenarios(growth_bias)["Join Startup"].growth
            IN <<Segment("compare", <<job_growth, startup_growth>>, <<>>), Blank, ctx>>
       [] OTHER -> <<Segment("fallback", <<>>, <<>>), Blank, ctx>>

----------------------------------------------------------------------------
(* app.py: the session chat memory *)

maxlen == 5

\* deque(maxlen=5).append(x)
AppendDropNewest(d, x) == IF Len(d) < maxlen THEN Append(d, x) ELSE d
DequeAppend(d, x) == IF Len(d) < maxlen THEN Append(d, x) ELSE Append(Tail(d), x)

\* if prompt:
Truthy(p) == p # <<>>

\* enumerate(reversed(chat_memory), 1)
Recent(d) == [i \in 1 .. Len(d) |-> [idx |-> i, p |-> d[Len(d) + 1 - i]]]

\* app.py 182 and 250-272: the chat section of one script run, the text box
\* holding p
ChatRun(p) ==
  /\ prompt' = p
  /\ IF Truthy(p)
       THEN /\ chat_memory' = DequeAppend(chat_memory, p)
            /\ resp_text' = analytical_response(p, chat_memory', inp.salary, inp.savings,
                              inp.emi, inp.family_expense, inp.risk_tolerance,
                              inp.years, inp.growth_bias)
       ELSE /\ chat_memory' = chat_memory
            /\ resp_text' = <<>>
  /\ shown' = Recent(chat_memory')
  /\ asked' = IF p # <<>> THEN Append(asked, p) ELSE asked
  /\ chatPc' = "shown"
  /\ UNCHANGED <<pageVars, pathVars>>

\* the text box: up to MaxWords words, or nothing
Words ==
  { <<"S", "t", "a", "r", "t", "u", "p">>, <<"f", "r", "e", "e", "l", "a", "n", "c", "e">>, <<"F", "r", "e", "e", "l", "a", "n", "c", "i", "n", "g">>, <<"s", "a", "v", "e">>, <<"S", "a", "v", "i", "n", "g", "s">>, <<"c", "o", "m", "p", "a", "r", "e">>, <<"j", "o", "b">> }

Space == <<" ">>

RECURSIVE Phrases(_)
Phrases(n) ==
  IF n = 1 THEN Words
  ELSE LET shorter == Phrases(n - 1)
       IN shorter \cup {ph \o Space \o w : ph \in shorter, w \in Words}

AllPrompts == Phrases(MaxWords)
ShortPrompts == { <<"p", "a", "y">>, <<"s", "a", "v", "e">>, <<"j", "o", "b">> }

\* the user submits a prompt (any interaction reruns the script with it)
SubmitPrompt ==
  /\ chatPc \in {"idle", "shown"}
  /\ Len(asked) < MaxAsked
  /\ \E p \in ShortPrompts : ChatRun(p)

\* the script runs with the text box empty
RunWithoutPrompt ==
  /\ chatPc \in {"idle", "shown"}
  /\ ChatRun(<<>>)

\* one question to the advisor, in a session that has a history
AskAdvisor ==
  /\ chatPc = "idle"
  /\ \E p \in AllPrompts : ChatRun(p)

----------------------------------------------------------------------------
(* utils/simulation_core.py: simulate_path.  risk_tolerance is in halves   *)
(* (the slider of app1.py runs from 0.0 to 1.0), the list is stored        *)
(* multiplied by PathUnit.                                                  *)

\* range(years - 1): the number of iterations
PathStepsYears(years) == IF years > 0 THEN years ELSE 0
PathSteps(years) == IF years - 1 > 0 THEN years - 1 ELSE 0

PathUnit == 200 ^ PathSteps(MaxPathYears)

\* np.random.default_rng(seed)
SeedState(seed) == seed % GenModulus

PathArgs ==
  [base_salary : {20}, growth_rate : {5, 12}, volatility : {-1, 0, 2},
   risk_tolerance : {0, 1, 2}, years : (-1) .. MaxPathYears, seed : {42, 7}]

\* salary[-1] * (1 + change * risk_tolerance)
PathGrow(s, change, risk_tolerance) == MulDiv(s, 200 + change * risk_tolerance, 200)

\* simulation_core.py 3-5
PathCall ==
  /\ pathPc \in {"idle", "returned", "raised"}
  /\ \E a \in PathArgs :
       /\ args' = a
       /\ rng' = SeedState(a.seed)
       /\ salaryList' = <<a.base_salary * PathUnit>>
  /\ noises' = <<>>
  /\ rngCalls' = 0
  /\ error' = "none"
  /\ pathPc' = "loop"
  /\ UNCHANGED <<pageVars, chatVars>>

\* simulation_core.py 6-8: one iteration; Generator.normal raises ValueError
\* on a negative scale
PathStep ==
  /\ pathPc = "loop"
  /\ Len(salaryList) - 1 < PathSteps(args.years)
  /\ rngCalls' = rngCalls + 1
  /\ IF args.volatility < 0
       THEN /\ error' = "ValueError"
            /\ pathPc' = "raised"
            /\ UNCHANGED <<rng, salaryList, noises>>
       ELSE LET noise == Normal(0, args.volatility, rng)
                change == args.growth_rate + noise
            IN /\ salaryList' = Append(salaryList,
                                  PathGrow(Last(salaryList), change, args.risk_tolerance))
               /\ noises' = Append(noises, noise)
               /\ rng' = NextGen(rng)
               /\ UNCHANGED <<error, pathPc>>
  /\ UNCHANGED <<args, pageVars, chatVars>>

\* simulation_core.py 9
PathReturn ==
  /\ pathPc = "loop"
  /\ Len(salaryList) - 1 >= PathSteps(args.years)
  /\ pathPc' = "returned"
  /\ UNCHANGED <<args, rng, salaryList, noises, rngCalls, error, pageVars, chatVars>>

----------------------------------------------------------------------------
(* Specifications.  Spec is the page of app.py down to the snapshot, run   *)
(* after run; SpecChat is its chat section, run after run; SpecAdvisor is  *)
(* one question put to the advisor; SpecPath is simulate_path under any    *)
(* arguments.  The chat section reads the widget values only, so the       *)
(* sections are explored apart, each with the others at rest.              *)

ChatIdle ==
  /\ chatPc = "idle" /\ prompt = <<>> /\ chat_memory = <<>> /\ resp_text = <<>>
  /\ shown = <<>> /\ asked = <<>>

PathIdle ==
  /\ pathPc = "idle"
  /\ args = [base_salary |-> 20, growth_rate |-> 5, volatility |-> 0,
             risk_tolerance |-> 0, years |-> 1, seed |-> 42]
  /\ rng = 0 /\ salaryList = <<>> /\ noises = <<>> /\ rngCalls = 0 /\ error = "none"

\* the page at rest after a run with the widget values in
PageAtRest(in) ==
  /\ pc = "chat"
  /\ inp = in
  /\ gen = 0
  /\ response = NoResponse
  /\ conversion_rate = RateOne
  /\ warned = FALSE
  /\ incomes = NoLists
  /\ wealth = NoLists
  /\ draws = NoLists
  /\ data = <<>>
  /\ df_all = <<>>
  /\ df_display = <<>>
  /\ snap = NoSnap
  /\ prev = NoRun

DefaultInputs ==
  [currency |-> "AED", salary |-> 15, family_expense |-> 5, emi |-> 2,
   savings |-> 10, risk_tolerance |-> 5, years |-> 1, growth_bias |-> 5]

AdvisorInputs ==
  [currency : {"AED"}, salary : {15}, family_expense : {0, 5}, emi : {0},
   savings : {10}, risk_tolerance : {2, 5, 9}, years : {1}, growth_bias : {5}]

AdvisorMemories ==
  { <<>>, << <<"p", "a", "y">> >>, << <<"p", "a", "y">>, <<"j", "o", "b">>, <<"s", "a", "v", "e">>, <<"p", "a", "y">>, <<"j", "o", "b">> >> }

Init == PageInit /\ ChatIdle /\ PathIdle
Next == PageNext
Spec == Init /\ [][Next]_vars

ChatInit == PageAtRest(DefaultInputs) /\ ChatIdle /\ PathIdle
ChatNext == SubmitPrompt \/ RunWithoutPrompt
SpecChat == ChatInit /\ [][ChatNext]_vars

AdvisorInit ==
  /\ \E in \in AdvisorInputs : PageAtRest(in)
  /\ chatPc = "idle" /\ prompt = <<>> /\ resp_text = <<>> /\ shown = <<>>
  /\ chat_memory \in AdvisorMemories
  /\ asked = chat_memory
  /\ PathIdle
AdvisorNext == AskAdvisor
SpecAdvisor == AdvisorInit /\ [][AdvisorNext]_vars

PathInit == PageAtRest(DefaultInputs) /\ ChatIdle /\ PathIdle
PathNext == PathCall \/ PathStep \/ PathReturn
SpecPath == PathInit /\ [][PathNext]_vars

----------------------------------------------------------------------------
(* Properties *)

Growth(n) == scenarios(inp.growth_bias)[n].growth
Outflow == (inp.family_expense + inp.emi) * 12 * Unit
Final(n) == wealth[n][Len(wealth[n])]
Before(a, b) ==
  \E i, j \in 1 .. Len(ScenarioNames) :
    i < j /\ ScenarioNames[i] = a /\ ScenarioNames[j] = b

\* C1: every trajectory the scenario loop has built has years + 1 entries,
\* indexed by Year 0 .. years, and its entry 0 is the savings, whatever was drawn.
C1_TrajectoryShape ==
  /\ \A n \in ScenarioSet :
       wealth[n] # <<>> =>
         /\ Len(wealth[n]) = inp.years + 1
         /\ wealth[n][1] = inp.savings * Unit
  /\ \A k \in 1 .. Len(data) :
       /\ Len(data[k]) = inp.years + 1
       /\ \A i \in 1 .. Len(data[k]) :
            /\ data[k][i].Year = i - 1
            /\ data[k][i].Scenario = ScenarioNames[k]
            /\ data[k][i].Wealth = wealth[ScenarioNames[k]][i]

\* C1 witness: a finished run over the longest horizon in which a draw left the mean
C1_Witness ==
  /\ pc = "done"
  /\ inp.years = MaxYears
  /\ Len(data) = Len(ScenarioNames)
  /\ \E n \in ScenarioSet : draws[n][1] # Growth(n)

\* C2: when every draw of a scenario equals its growth rate, the income grows by
\* the factor (1 + growth_rate) from salary * 12 and the wealth moves by income
\* minus the same outflow every year; the defaults over one year give [10000, 115000].
C2_ZeroVolatilityRecurrence ==
  /\ \A n \in ScenarioSet :
       (wealth[n] # <<>> /\ \A t \in 1 .. Len(draws[n]) : draws[n][t] = Growth(n)) =>
         /\ incomes[n][1] = inp.salary * 12 * Unit
         /\ \A t \in 2 .. Len(wealth[n]) :
              /\ t <= Len(incomes[n])
              /\ incomes[n][t - 1] % 100 = 0
              /\ incomes[n][t] = (incomes[n][t - 1] \div 100) * (100 + Growth(n))
              /\ wealth[n][t] = wealth[n][t - 1] + incomes[n][t] - Outflow
  /\ ( /\ wealth["Stay in Job"] # <<>>
       /\ inp.salary = 15 /\ inp.family_expense = 5 /\ inp.emi = 2
       /\ inp.savings = 10 /\ inp.growth_bias = 0 /\ inp.years = 1
       /\ draws["Stay in Job"] = <<5>> )
     => wealth["Stay in Job"] = <<10 * Unit, 115 * Unit>>

\* C2 witness: the worked example has run
C2_Witness ==
  /\ inp.salary = 15 /\ inp.family_expense = 5 /\ inp.emi = 2
  /\ inp.savings = 10 /\ inp.growth_bias = 0 /\ inp.years = 1
  /\ draws["Stay in Job"] = <<5>>
  /\ wealth["Stay in Job"] = <<10 * Unit, 115 * Unit>>

\* a trajectory of several years without noise is reached too
C2_LongWitness ==
  \E n \in ScenarioSet :
    /\ Len(wealth[n]) > 2
    /\ inp.salary > 0
    /\ \A t \in 1 .. Len(draws[n]) : draws[n][t] = Growth(n)

\* C3: a call with years < 1 or volatility < 0 ends in InvalidInput, with no
\* draw taken and no list built.
C3_InvalidInputRejected ==
  (pathPc \in {"returned", "raised"} /\ (args.years < 1 \/ args.volatility < 0)) =>
    (pathPc = "raised" /\ error = "InvalidInput" /\ rngCalls = 0)

\* C4: a run of the page with the same inputs as the run before it yields the
\* same trajectories.
C4_Reproducible == (pc = "done" /\ prev.valid) => wealth = prev.wealth

\* C5: the best path has the greatest final wealth, the worst path the least,
\* and no scenario inserted earlier has the same final wealth.
C5_BestWorstFirstOnTies ==
  snap.shown =>
    /\ snap.best \in ScenarioSet /\ snap.worst \in ScenarioSet
    /\ \A n \in ScenarioSet :
         /\ Final(n) <= Final(snap.best)
         /\ Final(n) >= Final(snap.worst)
         /\ Before(n, snap.best) => Final(n) < Final(snap.best)
         /\ Before(n, snap.worst) => Final(n) > Final(snap.worst)

\* C5 witness: the first and the last scenario tie for the least final wealth
C5_Witness ==
  /\ snap.shown
  /\ Final("Stay in Job") = Final("Go Freelance")
  /\ Final("Join Startup") > Final("Stay in Job")
  /\ snap.worst = "Stay in Job"
  /\ snap.best = "Join Startup"

\* all three tie: both metrics name the first scenario
C5_AllTieWitness ==
  /\ snap.shown
  /\ Final("Stay in Job") = Final("Go Freelance")
  /\ Final("Join Startup") = Final("Stay in Job")
  /\ snap.worst = "Stay in Job"
  /\ snap.best = "Stay in Job"

LastN(seq, k) == SubSeq(seq, IF Len(seq) > k THEN Len(seq) - k + 1 ELSE 1, Len(seq))

\* C6: the chat memory holds the most recent min(n, 5) submitted prompts in
\* the order submitted, never more than 5, and the listing shows them newest first.
C6_MemoryIsLastFive ==
  /\ Len(chat_memory) <= 5
  /\ chat_memory = LastN(asked, 5)
  /\ Len(shown) = Len(chat_memory)
  /\ \A i \in 1 .. Len(shown) : shown[i].p = asked[Len(asked) + 1 - i]

\* C6 witness: more than five prompts were submitted, the oldest is gone, and
\* the last run had an empty text box
C6_Witness ==
  /\ Len(asked) > 5
  /\ asked[1] # asked[2]
  /\ chat_memory[1] = asked[Len(asked) - 4]
  /\ chatPc = "shown"
  /\ prompt = <<>>

\* the keyword tests, in the order of the claim
Passes(i, q) ==
  CASE i = 1 -> In(kw_startup, q)
    [] i = 2 -> In(kw_freelance, q) \/ In(kw_freelancing, q)
    [] i = 3 -> In(kw_save, q) \/ In(kw_savings, q)
    [] i = 4 -> In(kw_compare, q) /\ In(kw_job, q) /\ In(kw_startup, q)
Templates == <<"startup", "freelance", "save", "compare">>

\* C7: the reply opens with the template of the first keyword test, in the
\* order startup, freelance, save, compare, that the lower-cased prompt passes,
\* with the fallback when it passes none, and ends with the context summary of
\* the current inputs and memory.
C7_FirstMatchWins ==
  (chatPc = "shown" /\ prompt # <<>>) =>
    /\ resp_text # <<>>
    /\ \E q \in {Lower(prompt)} :
         \E hits \in {{i \in 1 .. Len(Templates) : Passes(i, q)}} :
           /\ \A i \in hits :
                (resp_text[1].tag = Templates[i]) <=> (\A j \in hits : i <= j)
           /\ (resp_text[1].tag = "fallback") <=> (hits = {})
           /\ resp_text[1].tag = "fallback" \/ \E i \in hits : resp_text[1].tag = Templates[i]
    /\ \E ctx \in {resp_text[Len(resp_text)]} :
         /\ ctx = compose_context(chat_memory, inp.salary, inp.savings, inp.emi,
                                  inp.family_expense, inp.risk_tolerance, inp.years)
         /\ ctx.text # NoRecentQuestions
         /\ SubSeq(ctx.text, Len(ctx.text) - Len(prompt) + 1, Len(ctx.text)) = prompt

\* C7 witness: a prompt that passes the freelance and the save test, in upper
\* case in part, was answered with the freelance template
C7_Witness ==
  /\ chatPc = "shown"
  /\ In(kw_freelancing, Lower(prompt))
  /\ ~ In(kw_freelancing, prompt)
  /\ In(kw_save, Lower(prompt))
  /\ ~ In(kw_startup, Lower(prompt))
  /\ resp_text[1].tag = "freelance"

\* C9: no reply opens with the job-versus-startup comparison.
C9_CompareUnreachable ==
  \A i \in 1 .. Len(resp_text) : resp_text[i].tag # "compare"

\* C9 witness: a prompt with compare, job and startup in it was answered
C9_Witness ==
  /\ chatPc = "shown"
  /\ In(kw_compare, Lower(prompt))
  /\ In(kw_job, Lower(prompt))
  /\ In(kw_startup, Lower(prompt))
  /\ resp_text[1].tag = "startup"

Unavailable(resp, cur) ==
  \/ resp.raised
  \/ resp.status_code # 200
  \/ resp.body.kind # "object"
  \/ ~ resp.body.hasRates
  \/ ~ HasRate(resp.body.rates, cur)

\* C8: with AED chosen, or the rate unavailable, conversion_rate is 1.0; the
\* run never crashes; df_all keeps the simulated wealth, df_display is df_all
\* times the rate, and the best and worst metrics are final wealths times the rate.
C8_RateFallbackAndIsolation ==
  /\ pc # "crashed"
  /\ (pc # "currency" /\ inp.currency = base_currency) =>
       (conversion_rate = 100 /\ response = NoResponse)
  /\ (pc # "currency" /\ inp.currency # base_currency
        /\ Unavailable(response, inp.currency)) => conversion_rate = 100
  /\ pc \in {"snapshot", "done"} =>
       /\ Len(df_all) = Len(ScenarioNames) * (inp.years + 1)
       /\ Len(df_display) = Len(df_all)
       /\ \A i \in 1 .. Len(df_all) :
            /\ df_all[i].Wealth = wealth[df_all[i].Scenario][df_all[i].Year + 1]
            /\ df_display[i].Wealth = MulDiv(df_all[i].Wealth, conversion_rate, 100)
            /\ df_display[i].Scenario = df_all[i].Scenario
            /\ df_display[i].Year = df_all[i].Year
  /\ snap.shown =>
       /\ \A n \in ScenarioSet : Final(n) <= Final(snap.best)
       /\ \A n \in ScenarioSet : Final(n) >= Final(snap.worst)
       /\ snap.best_wealth = MulDiv(Final(snap.best), conversion_rate, 100)
       /\ snap.worst_wealth = MulDiv(Final(snap.worst), conversion_rate, 100)

\* C8 witness: the reply had rates, but none for the chosen currency, and the
\* page was rendered to the end
C8_Witness ==
  /\ pc = "done"
  /\ inp.currency = "USD"
  /\ ~ response.raised /\ response.status_code = 200
  /\ response.body.kind = "object" /\ response.body.hasRates
  /\ response.body.rates # <<>>
  /\ ~ HasRate(response.body.rates, "USD")
  /\ conversion_rate = 100
  /\ snap.shown

\* a rate that is available is applied
C8_ConvertedWitness ==
  /\ pc = "done"
  /\ conversion_rate = 27
  /\ inp.salary > 0
  /\ snap.best_wealth < Final(snap.best)

\* C10: simulate_path raises for no value of years; it returns a list that
\* starts with base_salary, has years entries when years >= 1 and one entry
\* otherwise, took one draw per later entry, and in which every later entry is
\* the one before it times (1 + (growth_rate + noise) * risk_tolerance), so
\* that with risk_tolerance 0 every entry is base_salary.
C10_PathShape ==
  /\ (pathPc = "raised" \/ error # "none") => (args.volatility < 0 /\ args.years > 1)
  /\ pathPc = "returned" =>
       /\ Len(salaryList) = (IF args.years >= 1 THEN args.years ELSE 1)
       /\ salaryList[1] = args.base_salary * PathUnit
       /\ rngCalls = Len(salaryList) - 1
       /\ Len(noises) = rngCalls
       /\ \A t \in 2 .. Len(salaryList) :
            /\ salaryList[t - 1] % 200 = 0
            /\ salaryList[t] =
                 (salaryList[t - 1] \div 200)
                   * (200 + (args.growth_rate + noises[t - 1]) * args.risk_tolerance)
       /\ args.risk_tolerance = 0 =>
            \A t \in 1 .. Len(salaryList) : salaryList[t] = args.base_salary * PathUnit

\* C10 witness: a call over the longest horizon with noise and risk returned
C10_Witness ==
  /\ pathPc = "returned"
  /\ args.years = MaxPathYears
  /\ args.risk_tolerance > 0
  /\ \E t \in 1 .. Len(noises) : noises[t] # 0
  /\ salaryList[Len(salaryList)] # salaryList[1]

\* years <= 1 returns the single entry without a draw
C10_ShortWitness ==
  /\ pathPc = "returned"
  /\ args.years < 1
  /\ args.volatility < 0
  /\ Len(salaryList) = 1

=============================================================================
